---- MODULE Spec2Model ----
(***************************************************************************)
(* Model of the image-analysis workflow scripts of analyze_gsimg.          *)
(*                                                                         *)
(*   Spec     alt/analyze_gsimg-gem-maps-oldauth.py : main() with the five *)
(*            stages Fetch, Archive, Classify, Describe, Record.           *)
(*   SpecSvc  alt/analyze_gsimg-newauth-svc.py : main() with the four      *)
(*            stages Fetch, Archive, Classify, Record.                     *)
(*                                                                         *)
(* A Python string is a sequence of tokens (TLA+ strings), so that         *)
(* formatting is concatenation and '' is <<>>.  A value that may be None   *)
(* is a sequence of length at most one: <<>> is None, <<v>> is v.          *)
(* Two invocations of main() are modelled side by side, "quiet" without    *)
(* and "verbose" with the debug flag; they get the same arguments and the  *)
(* same collaborator responses (env), each in a world of its own.          *)
(***************************************************************************)
EXTENDS Integers, Sequences, FiniteSets, TLC

\* ------------------------------------------------------------------ bounds
\* largest updatedCells count the tabular store reports
MaxUpdatedCells == 8
\* the largest of the small byte counts given to k_ize() on its own
MaxBytes == 1200

\* --------------------------------------------------------- program constants
TOP == 5
PROMPT == <<"Describe this image in 2-3 sentences">>
MAPS_API_URL == <<"maps.googleapis.com/maps/api/staticmap?size=480x480&markers=">>
API_KEY == <<"API_KEY">>

\* ------------------------------------------------------------ Python values
None == <<>>
Some(v) == <<v>>

\* value of the local rsp: t is the Python type, s its strings, n its number
PyNone == [t |-> "None", s |-> <<>>, n |-> 0]
PyTuple(strs) == [t |-> "tuple", s |-> strs, n |-> 0]
PyDict(strs) == [t |-> "dict", s |-> strs, n |-> 0]
PyInt(k) == [t |-> "int", s |-> <<>>, n |-> k]
PyStr(str) == [t |-> "str", s |-> <<str>>, n |-> 0]

\* Python truth value of rsp, as tested by "if not rsp"
Truthy(v) ==
  CASE v.t = "None" -> FALSE
    [] v.t = "tuple" -> v.s # <<>>
    [] v.t = "dict" -> v.s # <<>>
    [] v.t = "int" -> v.n # 0
    [] v.t = "str" -> v.s[1] # <<>>

\* mutant of TruthyOptStr: tests "is not None" instead of truthiness
IsNotNone(o) == o # None

\* Python truth value of a "str | None" (viz)
TruthyOptStr(o) == o # None /\ o[1] # <<>>

\* ---------------------------------------------------------- pure functions
DigitTok == <<"0", "1", "2", "3", "4", "5", "6", "7", "8", "9">>

\* str(n) for a natural number n
RECURSIVE Digits(_)
Digits(n) == IF n < 10 THEN <<DigitTok[n + 1]>>
             ELSE Digits(n \div 10) \o <<DigitTok[(n % 10) + 1]>>

RECURSIVE Spaces(_)
Spaces(k) == IF k <= 0 THEN <<>> ELSE <<" ">> \o Spaces(k - 1)

\* the byte counts n with n % 10 = 5, among 0..2000, 99980..100020 and
\* 999980..1000020, whose double n/1000. lies above the decimal tie (or on
\* it, next to an odd digit), so that '%.2f' rounds them up: float
\* arithmetic decides this, so it is tabulated from the implementation
TiesRoundedUp ==
  {5, 25, 35, 55, 65, 85, 95, 115, 135, 165, 195, 225, 255, 265, 275, 315,
   325, 335, 375, 385, 395, 405, 445, 455, 465, 505, 515, 525, 535, 545,
   555, 635, 645, 655, 665, 675, 685, 755, 765, 775, 785, 795, 805, 875,
   885, 895, 905, 915, 925, 935, 1135, 1145, 1155, 1165, 1175, 1185, 1195,
   1205, 1215, 1225, 1235, 1245, 1375, 1385, 1395, 1405, 1415, 1425, 1435,
   1445, 1455, 1465, 1475, 1485, 1495, 1635, 1645, 1655, 1665, 1675, 1685,
   1695, 1705, 1715, 1725, 1735, 1745, 1875, 1885, 1895, 1905, 1915, 1925,
   1935, 1945, 1955, 1965, 1975, 1985, 1995, 99995, 100015, 999985, 999995}

\* mutant of Hundredths: integer division, no rounding
HundredthsFloor(nbytes) == nbytes \div 10

\* nbytes/1000. rounded to hundredths, as '%.2f' rounds it
Hundredths(nbytes) ==
  LET q == nbytes \div 10
      r == nbytes % 10
  IN  IF r > 5 \/ (r = 5 /\ nbytes \in TiesRoundedUp) THEN q + 1 ELSE q

\* '%6.2fK' % (nbytes/1000.): at least 6 characters before the K
k_ize(nbytes) ==
  LET h == Hundredths(nbytes)
      whole == Digits(h \div 100)
      frac == <<DigitTok[((h % 100) \div 10) + 1], DigitTok[(h % 10) + 1]>>
      num == whole \o <<".">> \o frac
  IN  Spaces(6 - Len(num)) \o num \o <<"K">>

\* mutant of os_path_join: plain concatenation, no separator
os_path_concat(a, b) == a \o b

\* os.path.join(a, b) on POSIX
os_path_join(a, b) ==
  IF b # <<>> /\ b[1] = "/" THEN b
  ELSE IF a = <<>> \/ a[Len(a)] = "/" THEN a \o b
  ELSE a \o <<"/">> \o b

B64Alphabet ==
  <<"A", "B", "C", "D", "E", "F", "G", "H", "I", "J", "K", "L", "M", "N", "O", "P",
    "Q", "R", "S", "T", "U", "V", "W", "X", "Y", "Z", "a", "b", "c", "d", "e", "f",
    "g", "h", "i", "j", "k", "l", "m", "n", "o", "p", "q", "r", "s", "t", "u", "v",
    "w", "x", "y", "z", "0", "1", "2", "3", "4", "5", "6", "7", "8", "9", "+", "/">>

\* mutant of b64encode: encodes the first three bytes only
b64encode_head(bytes) ==
  LET c(i) == B64Alphabet[i + 1]
  IN  IF bytes = <<>> THEN <<>>
      ELSE IF Len(bytes) = 1 THEN
        <<c(bytes[1] \div 4), c((bytes[1] % 4) * 16), "=", "=">>
      ELSE IF Len(bytes) = 2 THEN
        <<c(bytes[1] \div 4), c((bytes[1] % 4) * 16 + bytes[2] \div 16),
          c((bytes[2] % 16) * 4), "=">>
      ELSE
        <<c(bytes[1] \div 4), c((bytes[1] % 4) * 16 + bytes[2] \div 16),
          c((bytes[2] % 16) * 4 + bytes[3] \div 64), c(bytes[3] % 64)>>

\* base64.b64encode(data).decode('utf-8'): 3 bytes to 4 characters, '=' padded
RECURSIVE b64encode(_)
b64encode(bytes) ==
  LET c(i) == B64Alphabet[i + 1]
  IN  IF bytes = <<>> THEN <<>>
      ELSE IF Len(bytes) = 1 THEN
        <<c(bytes[1] \div 4), c((bytes[1] % 4) * 16), "=", "=">>
      ELSE IF Len(bytes) = 2 THEN
        <<c(bytes[1] \div 4), c((bytes[1] % 4) * 16 + bytes[2] \div 16),
          c((bytes[2] % 16) * 4), "=">>
      ELSE
        <<c(bytes[1] \div 4), c((bytes[1] % 4) * 16 + bytes[2] \div 16),
          c((bytes[2] % 16) * 4 + bytes[3] \div 64), c(bytes[3] % 64)>>
        \o b64encode(SubSeq(bytes, 4, Len(bytes)))

Whitespace == {" ", "\n", "\t"}

\* str.strip()
RECURSIVE strip(_)
strip(text) ==
  IF text = <<>> THEN <<>>
  ELSE IF text[1] \in Whitespace THEN strip(Tail(text))
  ELSE IF text[Len(text)] \in Whitespace THEN strip(SubSeq(text, 1, Len(text) - 1))
  ELSE text

\* f"({label['score']*100.:.2f}%) {label['description']}"; the score is held
\* in units of 1/10000, so that score*100. has exactly two decimals
FormatLabel(label) ==
  <<"(">> \o Digits(label.score \div 100) \o <<".">>
  \o <<DigitTok[((label.score % 100) \div 10) + 1], DigitTok[(label.score % 10) + 1]>>
  \o <<"%) ">> \o label.description

\* mutant of JoinLabels: joins the labels in reverse order
RECURSIVE JoinLabelsReversed(_)
JoinLabelsReversed(labels) ==
  IF labels = <<>> THEN <<>>
  ELSE IF Len(labels) = 1 THEN FormatLabel(labels[1])
  ELSE JoinLabelsReversed(Tail(labels)) \o <<", ">> \o FormatLabel(labels[1])

\* ', '.join(<formatted label> for label in labels)
RECURSIVE JoinLabels(_)
JoinLabels(labels) ==
  IF labels = <<>> THEN <<>>
  ELSE IF Len(labels) = 1 THEN FormatLabel(labels[1])
  ELSE FormatLabel(labels[1]) \o <<", ">> \o JoinLabels(Tail(labels))

\* ------------------------------------------------- collaborators (stand-ins)
Runs == {"quiet", "verbose"}

\* a collaborator call as recorded by the stand-in: operation, string
\* arguments, binary argument, numeric argument
Call(op, strs, bytes, num) == [op |-> op, s |-> strs, d |-> bytes, n |-> num]

\* file store: the files a query for name may match
DriveFile(id, name, mimeType, modifiedTime) ==
  [id |-> id, name |-> name, mimeType |-> mimeType, modifiedTime |-> modifiedTime]
File1(name) == DriveFile(<<"id1">>, name, <<"image/jpeg">>, <<"2024-01-02T03:04:05.000Z">>)
File2(name) == DriveFile(<<"id2">>, name, <<"image/png">>, <<"2023-12-31T23:59:59.000Z">>)

\* file store: binary content by file id
DriveContent(id) ==
  IF id = <<"id1">> THEN <<255, 216, 255>>
  ELSE <<137, 80, 78, 71, 13, 10, 26, 10, 0, 0, 0, 13, 73, 72, 68, 82>>

\* responses of DRIVE.files().list(q="name='...'").execute()
ListResponses(name) ==
  {[st |-> "ok", files |-> fs] :
     fs \in {<<>>, <<File1(name)>>, <<File1(name), File2(name)>>,
             <<File2(name), File1(name)>>}}
  \cup {[st |-> "HttpError", files |-> <<>>]}

\* responses of DRIVE.files().get_media(fileId=...).execute()
MediaResponses == {[st |-> "ok"], [st |-> "HttpError"]}

\* latitude and longitude are floats, held in units of 1e-7 degrees
NoLocation == [latitude |-> 0, longitude |-> 0]
\* 37.4220041,-122.0862462; -33.856784,151.21; 1.23e-05,-5e-06
Locations ==
  {[latitude |-> 374220041, longitude |-> -1220862462],
   [latitude |-> -338567840, longitude |-> 1512100000],
   [latitude |-> 123, longitude |-> -50]}
\* values of the imageMediaMetadata field: None, or its keys and location
Metadata ==
  {None,
   Some([keys |-> {}, location |-> NoLocation]),
   Some([keys |-> {"width", "height"}, location |-> NoLocation])}
  \cup {Some([keys |-> {"width", "height", "location"}, location |-> l]) : l \in Locations}

\* responses of DRIVE.files().get(fileId=..., fields='imageMediaMetadata')
MetadataResponses ==
  {[st |-> "ok", imd |-> m] : m \in Metadata} \cup {[st |-> "HttpError", imd |-> None]}

\* responses of GCS.objects().insert(...): the receipt, {} or an error; the
\* receipt names the object as it was sent, or by a name the store assigned
InsertResponses ==
  {[st |-> "ok", as |-> "sent"], [st |-> "ok", as |-> "assigned"],
   [st |-> "empty", as |-> "sent"], [st |-> "HttpError", as |-> "sent"]}

\* the 'bucket' and 'name' fields of the response to an insert of name into
\* bucket
Receipt(ir, bucket, name) ==
  IF ir.as = "sent" THEN <<bucket, name>> ELSE <<bucket, <<"upload-1/">> \o name>>

Dog == [description |-> <<"Dog">>, score |-> 9700]
Park == [description |-> <<"Park">>, score |-> 8812]
\* responses[0] of VISION.images().annotate(): its labelAnnotations, or None
\* when the key is missing
AnnotateResponses ==
  {[st |-> "ok", labelAnnotations |-> la] :
     la \in {None, Some(<<>>), Some(<<Dog>>), Some(<<Dog, Park>>), Some(<<Park, Dog>>)}}
  \cup {[st |-> "HttpError", labelAnnotations |-> None]}

\* .text of model.generate_content(), or an error (of the service, or of
\* Image.open on content that is no image)
GenerateResponses ==
  {[st |-> "ok", text |-> t] :
     t \in {<<>>, <<" ">>, <<"A dog sits in a park.">>,
            <<" ", "A dog sits in a park.", "\n">>}}
  \cup {[st |-> "error", text |-> <<>>]}

\* responses of SHEETS.spreadsheets().values().append(): {} is updates = None,
\* {'updates': {}} is updates = Some(None)
AppendResponses ==
  {[st |-> "ok", updates |-> u] :
     u \in {None, Some(None)} \cup {Some(Some(k)) : k \in 0..MaxUpdatedCells}}
  \cup {[st |-> "HttpError", updates |-> None]}

\* ----------------------------------------------------------------- stages
\* Each stage function takes the collaborator's response(s) as extra
\* arguments and yields whether it raised, what it returned and the
\* collaborator calls it made.

\* a sequence of digits without its trailing zeros, down to one digit
RECURSIVE StripZeros(_)
StripZeros(ds) ==
  IF Len(ds) > 1 /\ ds[Len(ds)] = "0" THEN StripZeros(SubSeq(ds, 1, Len(ds) - 1)) ELSE ds

\* the decimal digits of n, zero-padded on the left to width w
RECURSIVE ZeroPad(_, _)
ZeroPad(n, w) == IF w = 0 THEN <<>> ELSE ZeroPad(n \div 10, w - 1) \o <<DigitTok[(n % 10) + 1]>>

\* str(x) of the float x = v * 1e-7, as an f-string formats it: the shortest
\* repr, in exponent notation below 0.0001
FloatStr(v) ==
  LET a == IF v < 0 THEN -v ELSE v
      sign == IF v < 0 THEN <<"-">> ELSE <<>>
      ds == Digits(a)
      rest == StripZeros(SubSeq(ds, 2, Len(ds)))
      mantissa == IF Len(ds) = 1 \/ rest = <<"0">> THEN <<ds[1]>>
                  ELSE <<ds[1], ".">> \o rest
  IN  IF a # 0 /\ a < 1000
      THEN sign \o mantissa \o <<"e", "-", "0", DigitTok[(8 - Len(ds)) + 1]>>
      ELSE sign \o Digits(a \div 10000000) \o <<".">>
           \o StripZeros(ZeroPad(a % 10000000, 7))

\* mutant of drive_geoloc_maps: longitude before latitude
drive_geoloc_maps_swapped(file_id, gr) ==
  LET made == <<Call("DRIVE.files.get", <<file_id, <<"imageMediaMetadata">>>>, <<>>, 0)>>
      imd == gr.imd
  IN  IF gr.st # "ok" THEN [raised |-> TRUE, url |-> <<>>, calls |-> made]
      ELSE IF imd = None \/ imd[1].keys = {} \/ "location" \notin imd[1].keys
      THEN [raised |-> FALSE, url |-> <<>>, calls |-> made]
      ELSE [raised |-> FALSE,
            url |-> MAPS_API_URL \o FloatStr(imd[1].location.longitude) \o <<",">>
                    \o FloatStr(imd[1].location.latitude) \o <<"&key=">> \o API_KEY,
            calls |-> made]

\* drive_geoloc_maps(file_id): Maps API URL, or '' without geolocation
drive_geoloc_maps(file_id, gr) ==
  LET made == <<Call("DRIVE.files.get", <<file_id, <<"imageMediaMetadata">>>>, <<>>, 0)>>
      imd == gr.imd
  IN  IF gr.st # "ok" THEN [raised |-> TRUE, url |-> <<>>, calls |-> made]
      ELSE IF imd = None \/ imd[1].keys = {} \/ "location" \notin imd[1].keys
      THEN [raised |-> FALSE, url |-> <<>>, calls |-> made]
      ELSE [raised |-> FALSE,
            url |-> MAPS_API_URL \o FloatStr(imd[1].location.latitude) \o <<",">>
                    \o FloatStr(imd[1].location.longitude) \o <<"&key=">> \o API_KEY,
            calls |-> made]

\* mutant of drive_get_img: takes rsp[0] without testing rsp, IndexError on
\* zero matches
drive_get_img_unchecked(name, lr, mr, gr) ==
  LET listed == <<Call("DRIVE.files.list", <<name>>, <<>>, 0)>>
      absent == [raised |-> FALSE, found |-> FALSE, fname |-> <<>>, mtype |-> <<>>,
                 ftime |-> <<>>, data |-> <<>>, maps |-> <<>>, calls |-> listed]
  IN  IF lr.st # "ok" \/ lr.files = <<>> THEN [absent EXCEPT !.raised = TRUE]
      ELSE
        LET target == lr.files[1]
            fileId == target.id
            got == listed \o <<Call("DRIVE.files.get_media", <<fileId>>, <<>>, 0)>>
            geo == drive_geoloc_maps(fileId, gr)
        IN  IF mr.st # "ok" THEN [absent EXCEPT !.raised = TRUE, !.calls = got]
            ELSE IF geo.raised
            THEN [absent EXCEPT !.raised = TRUE, !.calls = got \o geo.calls]
            ELSE [raised |-> FALSE, found |-> TRUE, fname |-> target.name,
                  mtype |-> target.mimeType, ftime |-> target.modifiedTime,
                  data |-> DriveContent(fileId), maps |-> geo.url,
                  calls |-> got \o geo.calls]

\* mutant of drive_get_img: uses the last matching file
drive_get_img_last(name, lr, mr, gr) ==
  LET listed == <<Call("DRIVE.files.list", <<name>>, <<>>, 0)>>
      absent == [raised |-> FALSE, found |-> FALSE, fname |-> <<>>, mtype |-> <<>>,
                 ftime |-> <<>>, data |-> <<>>, maps |-> <<>>, calls |-> listed]
  IN  IF lr.st # "ok" THEN [absent EXCEPT !.raised = TRUE]
      ELSE IF lr.files = <<>> THEN absent
      ELSE
        LET target == lr.files[Len(lr.files)]
            fileId == target.id
            got == listed \o <<Call("DRIVE.files.get_media", <<fileId>>, <<>>, 0)>>
            geo == drive_geoloc_maps(fileId, gr)
        IN  IF mr.st # "ok" THEN [absent EXCEPT !.raised = TRUE, !.calls = got]
            ELSE IF geo.raised
            THEN [absent EXCEPT !.raised = TRUE, !.calls = got \o geo.calls]
            ELSE [raised |-> FALSE, found |-> TRUE, fname |-> target.name,
                  mtype |-> target.mimeType, ftime |-> target.modifiedTime,
                  data |-> DriveContent(fileId), maps |-> geo.url,
                  calls |-> got \o geo.calls]

\* mutant of drive_get_img: an error of the geolocation lookup is taken as
\* "no geolocation"
drive_get_img_optional(name, lr, mr, gr) ==
  LET listed == <<Call("DRIVE.files.list", <<name>>, <<>>, 0)>>
      absent == [raised |-> FALSE, found |-> FALSE, fname |-> <<>>, mtype |-> <<>>,
                 ftime |-> <<>>, data |-> <<>>, maps |-> <<>>, calls |-> listed]
  IN  IF lr.st # "ok" THEN [absent EXCEPT !.raised = TRUE]
      ELSE IF lr.files = <<>> THEN absent
      ELSE
        LET target == lr.files[1]
            fileId == target.id
            got == listed \o <<Call("DRIVE.files.get_media", <<fileId>>, <<>>, 0)>>
            geo == drive_geoloc_maps(fileId, gr)
        IN  IF mr.st # "ok" THEN [absent EXCEPT !.raised = TRUE, !.calls = got]
            ELSE [raised |-> FALSE, found |-> TRUE, fname |-> target.name,
                  mtype |-> target.mimeType, ftime |-> target.modifiedTime,
                  data |-> DriveContent(fileId), maps |-> geo.url,
                  calls |-> got \o geo.calls]

\* drive_get_img(fname): file info, binary and Maps URL of the first match,
\* or None (found = FALSE)
drive_get_img(name, lr, mr, gr) ==
  LET listed == <<Call("DRIVE.files.list", <<name>>, <<>>, 0)>>
      absent == [raised |-> FALSE, found |-> FALSE, fname |-> <<>>, mtype |-> <<>>,
                 ftime |-> <<>>, data |-> <<>>, maps |-> <<>>, calls |-> listed]
  IN  IF lr.st # "ok" THEN [absent EXCEPT !.raised = TRUE]
      ELSE IF lr.files = <<>> THEN absent
      ELSE
        LET target == lr.files[1]
            fileId == target.id
            got == listed \o <<Call("DRIVE.files.get_media", <<fileId>>, <<>>, 0)>>
            geo == drive_geoloc_maps(fileId, gr)
        IN  IF mr.st # "ok" THEN [absent EXCEPT !.raised = TRUE, !.calls = got]
            ELSE IF geo.raised
            THEN [absent EXCEPT !.raised = TRUE, !.calls = got \o geo.calls]
            ELSE [raised |-> FALSE, found |-> TRUE, fname |-> target.name,
                  mtype |-> target.mimeType, ftime |-> target.modifiedTime,
                  data |-> DriveContent(fileId), maps |-> geo.url,
                  calls |-> got \o geo.calls]

\* drive_get_img of newauth-svc: no geolocation lookup
svc_drive_get_img(name, lr, mr) ==
  LET listed == <<Call("DRIVE.files.list", <<name>>, <<>>, 0)>>
      absent == [raised |-> FALSE, found |-> FALSE, fname |-> <<>>, mtype |-> <<>>,
                 ftime |-> <<>>, data |-> <<>>, calls |-> listed]
  IN  IF lr.st # "ok" THEN [absent EXCEPT !.raised = TRUE]
      ELSE IF lr.files = <<>> THEN absent
      ELSE
        LET target == lr.files[1]
            fileId == target.id
            got == listed \o <<Call("DRIVE.files.get_media", <<fileId>>, <<>>, 0)>>
        IN  IF mr.st # "ok" THEN [absent EXCEPT !.raised = TRUE, !.calls = got]
            ELSE [raised |-> FALSE, found |-> TRUE, fname |-> target.name,
                  mtype |-> target.mimeType, ftime |-> target.modifiedTime,
                  data |-> DriveContent(fileId), calls |-> got]

\* mutant of gcs_blob_upload: a second insert after an empty response
gcs_blob_upload_retry(name, bucket, media, mimetype, ir) ==
  LET made == <<Call("GCS.objects.insert", <<bucket, name, mimetype>>, media, 0)>>
  IN  [raised |-> ir.st = "HttpError",
       rsp |-> CASE ir.st = "ok" -> PyDict(Receipt(ir, bucket, name))
                 [] ir.st = "empty" -> PyDict(<<>>)
                 [] OTHER -> PyNone,
       calls |-> IF ir.st = "empty" THEN made \o made ELSE made]

\* gcs_blob_upload(fname, bucket, media, mimetype): the insert's response
gcs_blob_upload(name, bucket, media, mimetype, ir) ==
  LET made == <<Call("GCS.objects.insert", <<bucket, name, mimetype>>, media, 0)>>
  IN  [raised |-> ir.st = "HttpError",
       rsp |-> CASE ir.st = "ok" -> PyDict(Receipt(ir, bucket, name))
                 [] ir.st = "empty" -> PyDict(<<>>)
                 [] OTHER -> PyNone,
       calls |-> made]

\* vision_label_img(img, top): the labels as CSV, or None
vision_label_img(img, top, ar) ==
  LET made == <<Call("VISION.images.annotate", <<img>>, <<>>, top.val)>>
  IN  [raised |-> ar.st # "ok",
       viz |-> IF ar.st = "ok" /\ ar.labelAnnotations # None
               THEN Some(JoinLabels(ar.labelAnnotations[1])) ELSE None,
       calls |-> made]

\* genai_analyze_img(media): the stripped text of the LLM's answer
genai_analyze_img(media, gr) ==
  LET made == <<Call("GEMINI.generate_content", <<PROMPT>>, media, 0)>>
  IN  [raised |-> gr.st # "ok", text |-> strip(gr.text), calls |-> made]

\* mutant of sheet_append_row: no "if rsp", AttributeError on an empty response
sheet_append_row_unguarded(sheet, cells, ar) ==
  LET made == <<Call("SHEETS.values.append", <<sheet>> \o cells, <<>>, 0)>>
  IN  [raised |-> ar.st # "ok" \/ ar.updates = None,
       rsp |-> IF ar.st = "ok" /\ ar.updates # None /\ ar.updates[1] # None
               THEN PyInt(ar.updates[1][1]) ELSE PyNone,
       calls |-> made]

\* mutant of sheet_append_row: returns the length of the row sent, not the
\* count the store reports
sheet_append_row_len(sheet, cells, ar) ==
  LET made == <<Call("SHEETS.values.append", <<sheet>> \o cells, <<>>, 0)>>
  IN  [raised |-> ar.st # "ok",
       rsp |-> IF ar.st = "ok" /\ ar.updates # None THEN PyInt(Len(cells)) ELSE PyNone,
       calls |-> made]

\* sheet_append_row(sheet, row): number of cells added, else None
sheet_append_row(sheet, cells, ar) ==
  LET made == <<Call("SHEETS.values.append", <<sheet>> \o cells, <<>>, 0)>>
  IN  [raised |-> ar.st # "ok",
       rsp |-> IF ar.st = "ok" /\ ar.updates # None /\ ar.updates[1] # None
               THEN PyInt(ar.updates[1][1]) ELSE PyNone,
       calls |-> made]

\* mutant of FileLink: the object name before the bucket
FileLinkNameFirst(bucket, name, label) ==
  <<"=HYPERLINK(\"storage.cloud.google.com/">> \o name \o <<"/">> \o bucket
  \o <<"\", \"">> \o label \o <<"\")">>

\* '=HYPERLINK("storage.cloud.google.com/{bucket}/{gcsname}", "{fname}")'
FileLink(bucket, name, label) ==
  <<"=HYPERLINK(\"storage.cloud.google.com/">> \o bucket \o <<"/">> \o name
  \o <<"\", \"">> \o label \o <<"\")">>

\* '=HYPERLINK("{maps}", "Photo location")'
MapLink(url) == <<"=HYPERLINK(\"">> \o url \o <<"\", \"Photo location\")">>

\* mutant of BuildRow: appends the map cell without testing maps
BuildRowAlwaysMap(folder, bucket, name, label, mimetype, mtime, size, labels, text, url) ==
  <<folder, FileLink(bucket, name, label), mimetype, mtime, size, labels, text,
    MapLink(url)>>

\* the row main() builds for the Sheet
BuildRow(folder, bucket, name, label, mimetype, mtime, size, labels, text, url) ==
  LET cells == <<folder, FileLink(bucket, name, label), mimetype, mtime, size,
                 labels, text>>
  IN  IF url # <<>> THEN Append(cells, MapLink(url)) ELSE cells

\* the row main() of newauth-svc builds for the Sheet
SvcBuildRow(folder, bucket, name, label, mimetype, mtime, size, labels) ==
  <<folder, FileLink(bucket, name, label), mimetype, mtime, size, labels>>

\* ------------------------------------------------------------------ state
VARIABLES
  args,      \* arguments of main(): fname, bucket, sheet_id, folder, top
  debug,     \* debug[r]: the debug argument of invocation r
  env,       \* the response each collaborator operation gives (<<>>: not yet asked)
  pc,        \* pc[r]: the stage invocation r is at, or Done / Aborted
  ret,       \* ret[r]: what main() gave its caller: pending, None, True, raised
  fname, mtype, ftime, data, maps,   \* locals of main() unpacked from Fetch
  gcsname, rsp, viz, gem, fsize, row, \* further locals of main()
  console,   \* console[r]: the progress notices printed
  slept,     \* slept[r]: seconds spent in time.sleep
  gcs,       \* gcs[r]: the objects in the object store
  calls,     \* calls[r]: the collaborator calls made, in order
  trace,     \* trace[r]: the stages invoked and how each ended, in order
  nbytes,    \* the argument of a call of k_ize() on its own
  kstr       \* what that call returned (None: not yet called)

locals == <<fname, mtype, ftime, data, maps, gcsname, rsp, viz, gem, fsize, row>>
vars == <<args, debug, env, pc, ret, locals, console, slept, gcs, calls, trace,
          nbytes, kstr>>

Folders == {<<>>, <<"2024">>, <<"2024", "/">>}
\* top is the int TOP by default and a str when given on the command line
Tops == {[py |-> "int", val |-> TOP], [py |-> "str", val |-> 3]}

Arguments ==
  [fname : {<<"photo.jpg">>}, bucket : {<<"my-bucket">>},
   sheet_id : {<<"SHEET_ID">>}, folder : Folders, top : Tops]

\* the state before main() runs
Fresh ==
  /\ debug = [r \in Runs |-> r = "verbose"]
  /\ env = [list |-> <<>>, media |-> <<>>, imd |-> <<>>, insert |-> <<>>,
            annotate |-> <<>>, generate |-> <<>>, append |-> <<>>]
  /\ pc = [r \in Runs |-> "Fetching"]
  /\ ret = [r \in Runs |-> "pending"]
  /\ fname = [r \in Runs |-> args.fname]
  /\ mtype = [r \in Runs |-> <<>>]
  /\ ftime = [r \in Runs |-> <<>>]
  /\ data = [r \in Runs |-> <<>>]
  /\ maps = [r \in Runs |-> <<>>]
  /\ gcsname = [r \in Runs |-> <<>>]
  /\ rsp = [r \in Runs |-> PyNone]
  /\ viz = [r \in Runs |-> None]
  /\ gem = [r \in Runs |-> <<>>]
  /\ fsize = [r \in Runs |-> <<>>]
  /\ row = [r \in Runs |-> <<>>]
  /\ console = [r \in Runs |-> <<>>]
  /\ slept = [r \in Runs |-> 0]
  /\ gcs = [r \in Runs |-> {}]
  /\ calls = [r \in Runs |-> <<>>]
  /\ trace = [r \in Runs |-> <<>>]

Init ==
  /\ args \in Arguments
  /\ Fresh
  /\ nbytes = 0
  /\ kstr = None

\* the collaborator operation op may answer resp: both invocations get the
\* same response
Serves(op, resp) == env[op] \in {<<>>, <<resp>>}

Called(made, op) == \E i \in DOMAIN made : made[i].op = op

\* how a stage ended, from whether it raised and whether its result is truthy
Outcome(raised, truthy) ==
  IF raised THEN "raised" ELSE IF truthy THEN "populated" ELSE "absent"

\* mutant of Advance: an absent result does not end main()
AdvanceFallThrough(r, stage, outcome, next) ==
  /\ trace' = [trace EXCEPT ![r] = Append(@, [stage |-> stage, outcome |-> outcome])]
  /\ pc' = [pc EXCEPT ![r] = IF outcome # "raised" THEN next ELSE "Aborted"]
  /\ ret' = [ret EXCEPT ![r] =
              CASE outcome = "raised" -> "raised"
                [] OTHER -> IF next = "Done" THEN "True" ELSE @]

\* mutant of Advance: a stage with an absent result is invoked again
AdvanceRetry(r, stage, outcome, next) ==
  /\ trace' = [trace EXCEPT ![r] = Append(@, [stage |-> stage, outcome |-> outcome])]
  /\ pc' = [pc EXCEPT ![r] =
             CASE outcome = "populated" -> next
               [] outcome = "absent" /\ Len(trace[r]) < 6 -> @
               [] OTHER -> "Aborted"]
  /\ ret' = [ret EXCEPT ![r] =
              CASE outcome = "raised" -> "raised"
                [] outcome = "absent" /\ Len(trace[r]) >= 6 -> "None"
                [] outcome = "absent" -> @
                [] OTHER -> IF next = "Done" THEN "True" ELSE @]

\* mutant of Advance: main() does not return after the last stage
AdvanceHang(r, stage, outcome, next) ==
  /\ trace' = [trace EXCEPT ![r] = Append(@, [stage |-> stage, outcome |-> outcome])]
  /\ pc' = [pc EXCEPT ![r] =
             IF outcome # "populated" THEN "Aborted"
             ELSE IF next = "Done" THEN "Returning" ELSE next]
  /\ ret' = [ret EXCEPT ![r] =
              CASE outcome = "raised" -> "raised"
                [] outcome = "absent" -> "None"
                [] OTHER -> @]

\* "if not <result>: return", else on to the next stage; the last stage is
\* followed by "return True"; an exception leaves main() at once
Advance(r, stage, outcome, next) ==
  /\ trace' = [trace EXCEPT ![r] = Append(@, [stage |-> stage, outcome |-> outcome])]
  /\ pc' = [pc EXCEPT ![r] = IF outcome = "populated" THEN next ELSE "Aborted"]
  /\ ret' = [ret EXCEPT ![r] =
              CASE outcome = "raised" -> "raised"
                [] outcome = "absent" -> "None"
                [] OTHER -> IF next = "Done" THEN "True" ELSE @]

\* "if debug: print(...); time.sleep(2)" after a stage that succeeded
Verbose(r, succeeded, notice) ==
  /\ console' = [console EXCEPT ![r] =
                  IF debug[r] /\ succeeded THEN Append(@, notice) ELSE @]
  /\ slept' = [slept EXCEPT ![r] = IF debug[r] /\ succeeded THEN @ + 2 ELSE @]

\* ------------------------------------- main() of analyze_gsimg-gem-maps-oldauth
\* download img file & info from Drive
Fetch(r) ==
  /\ pc[r] = "Fetching"
  /\ \E lr \in ListResponses(fname[r]), mr \in MediaResponses, gr \in MetadataResponses :
       LET out == drive_get_img(fname[r], lr, mr, gr)
           ok == ~out.raised /\ out.found
           askedMedia == Called(out.calls, "DRIVE.files.get_media")
           askedImd == Called(out.calls, "DRIVE.files.get")
       IN  /\ Serves("list", lr)
           /\ askedMedia => Serves("media", mr)
           /\ askedImd => Serves("imd", gr)
           /\ env' = [env EXCEPT !.list = <<lr>>,
                                 !.media = IF askedMedia THEN <<mr>> ELSE @,
                                 !.imd = IF askedImd THEN <<gr>> ELSE @]
           /\ calls' = [calls EXCEPT ![r] = @ \o out.calls]
           /\ rsp' = [rsp EXCEPT ![r] =
                       IF out.raised THEN @
                       ELSE IF out.found
                       THEN PyTuple(<<out.fname, out.mtype, out.ftime, out.maps>>)
                       ELSE PyNone]
           /\ fname' = [fname EXCEPT ![r] = IF ok THEN out.fname ELSE @]
           /\ mtype' = [mtype EXCEPT ![r] = IF ok THEN out.mtype ELSE @]
           /\ ftime' = [ftime EXCEPT ![r] = IF ok THEN out.ftime ELSE @]
           /\ data' = [data EXCEPT ![r] = IF ok THEN out.data ELSE @]
           /\ maps' = [maps EXCEPT ![r] = IF ok THEN out.maps ELSE @]
           /\ Verbose(r, ok, <<"* Downloaded '">> \o out.fname \o <<"' (">> \o out.mtype
                             \o <<", ">> \o out.ftime \o <<", size: ">>
                             \o Digits(Len(out.data)))
           /\ Advance(r, "Fetch", Outcome(out.raised, out.found), "Archiving")
  /\ UNCHANGED <<nbytes, kstr, args, debug, gcsname, viz, gem, fsize, row, gcs>>

\* upload file to GCS
Archive(r) ==
  /\ pc[r] = "Archiving"
  /\ \E ir \in InsertResponses :
       LET name == os_path_join(args.folder, fname[r])
           out == gcs_blob_upload(name, args.bucket, data[r], mtype[r], ir)
           ok == ~out.raised /\ Truthy(out.rsp)
       IN  /\ Serves("insert", ir)
           /\ env' = [env EXCEPT !.insert = <<ir>>]
           /\ gcsname' = [gcsname EXCEPT ![r] = name]
           /\ calls' = [calls EXCEPT ![r] = @ \o out.calls]
           /\ gcs' = [gcs EXCEPT ![r] =
                       IF ir.st = "ok"
                       THEN @ \cup {[bucket |-> out.rsp.s[1], name |-> out.rsp.s[2],
                                     media |-> data[r], contentType |-> mtype[r]]}
                       ELSE @]
           /\ rsp' = [rsp EXCEPT ![r] = IF out.raised THEN @ ELSE out.rsp]
           /\ Verbose(r, ok, <<"* Uploaded '">> \o out.rsp.s[2] \o <<"' to GCS bucket '">>
                             \o out.rsp.s[1] \o <<"''">>)
           /\ Advance(r, "Archive", Outcome(out.raised, Truthy(out.rsp)), "Classifying")
  /\ UNCHANGED <<nbytes, kstr, args, debug, fname, mtype, ftime, data, maps, viz, gem, fsize, row>>

\* process w/Vision
Classify(r) ==
  /\ pc[r] = "Classifying"
  /\ \E ar \in AnnotateResponses :
       LET out == vision_label_img(b64encode(data[r]), args.top, ar)
           ok == ~out.raised /\ TruthyOptStr(out.viz)
       IN  /\ Serves("annotate", ar)
           /\ env' = [env EXCEPT !.annotate = <<ar>>]
           /\ calls' = [calls EXCEPT ![r] = @ \o out.calls]
           /\ viz' = [viz EXCEPT ![r] = IF out.raised THEN @ ELSE out.viz]
           /\ Verbose(r, ok, <<"* Top ">> \o Digits(args.top.val)
                             \o <<" labels from Vision API: ">> \o out.viz[1])
           /\ Advance(r, "Classify", Outcome(out.raised, TruthyOptStr(out.viz)),
                      "Describing")
  /\ UNCHANGED <<nbytes, kstr, args, debug, fname, mtype, ftime, data, maps, gcsname, rsp, gem,
                 fsize, row, gcs>>

\* process w/Gemini
Describe(r) ==
  /\ pc[r] = "Describing"
  /\ \E gr \in GenerateResponses :
       LET out == genai_analyze_img(data[r], gr)
           ok == ~out.raised /\ out.text # <<>>
       IN  /\ Serves("generate", gr)
           /\ env' = [env EXCEPT !.generate = <<gr>>]
           /\ calls' = [calls EXCEPT ![r] = @ \o out.calls]
           /\ gem' = [gem EXCEPT ![r] = IF out.raised THEN @ ELSE out.text]
           /\ Verbose(r, ok, <<"* Analysis from Gemini API: ">> \o out.text)
           /\ Advance(r, "Describe", Outcome(out.raised, out.text # <<>>), "Recording")
  /\ UNCHANGED <<nbytes, kstr, args, debug, fname, mtype, ftime, data, maps, gcsname, rsp, viz,
                 fsize, row, gcs>>

\* build row to write to Sheet, process optional geolocation, add new row
Record(r) ==
  /\ pc[r] = "Recording"
  /\ \E ar \in AppendResponses :
       LET size == k_ize(Len(data[r]))
           cells == BuildRow(args.folder, args.bucket, gcsname[r], fname[r], mtype[r],
                             ftime[r], size, viz[r][1], gem[r], maps[r])
           out == sheet_append_row(args.sheet_id, cells, ar)
           ok == ~out.raised /\ Truthy(out.rsp)
           located == IF debug[r] /\ maps[r] # <<>>
                      THEN <<<<"* Found location, Maps API URL: ">> \o maps[r]>>
                      ELSE <<>>
           added == IF debug[r] /\ ok
                    THEN <<<<"* Added ">> \o Digits(out.rsp.n) \o <<" cells to Google Sheet">>>>
                    ELSE <<>>
       IN  /\ Serves("append", ar)
           /\ env' = [env EXCEPT !.append = <<ar>>]
           /\ fsize' = [fsize EXCEPT ![r] = size]
           /\ row' = [row EXCEPT ![r] = cells]
           /\ calls' = [calls EXCEPT ![r] = @ \o out.calls]
           /\ rsp' = [rsp EXCEPT ![r] = IF out.raised THEN @ ELSE out.rsp]
           /\ console' = [console EXCEPT ![r] = @ \o located \o added]
           /\ slept' = [slept EXCEPT ![r] = @ + 2 * (Len(located) + Len(added))]
           /\ Advance(r, "Record", Outcome(out.raised, Truthy(out.rsp)), "Done")
  /\ UNCHANGED <<nbytes, kstr, args, debug, fname, mtype, ftime, data, maps, gcsname, viz, gem, gcs>>

Next ==
  \E r \in Runs : Fetch(r) \/ Archive(r) \/ Classify(r) \/ Describe(r) \/ Record(r)

Spec == Init /\ [][Next]_vars

\* the statement main() of invocation r is at
Step(r) == Fetch(r) \/ Archive(r) \/ Classify(r) \/ Describe(r) \/ Record(r)

\* a process run makes one invocation of main(): the other one is not started
Alone(r) == \A o \in Runs \ {r} : pc[o] = "Fetching"

NextOne == \E r \in Runs : Alone(r) /\ Step(r)

\* main() is straight-line code that blocks on each .execute(): when every
\* collaborator call returns, the statement the invocation is at is executed
FairSpec == Init /\ [][NextOne]_vars /\ WF_vars(NextOne)

\* ----------------------------------------- main() of analyze_gsimg-newauth-svc
\* download img file & info from Drive
SvcFetch(r) ==
  /\ pc[r] = "Fetching"
  /\ \E lr \in ListResponses(fname[r]), mr \in MediaResponses :
       LET out == svc_drive_get_img(fname[r], lr, mr)
           ok == ~out.raised /\ out.found
           askedMedia == Called(out.calls, "DRIVE.files.get_media")
       IN  /\ Serves("list", lr)
           /\ askedMedia => Serves("media", mr)
           /\ env' = [env EXCEPT !.list = <<lr>>,
                                 !.media = IF askedMedia THEN <<mr>> ELSE @]
           /\ calls' = [calls EXCEPT ![r] = @ \o out.calls]
           /\ rsp' = [rsp EXCEPT ![r] =
                       IF out.raised THEN @
                       ELSE IF out.found THEN PyTuple(<<out.fname, out.mtype, out.ftime>>)
                       ELSE PyNone]
           /\ fname' = [fname EXCEPT ![r] = IF ok THEN out.fname ELSE @]
           /\ mtype' = [mtype EXCEPT ![r] = IF ok THEN out.mtype ELSE @]
           /\ ftime' = [ftime EXCEPT ![r] = IF ok THEN out.ftime ELSE @]
           /\ data' = [data EXCEPT ![r] = IF ok THEN out.data ELSE @]
           /\ Verbose(r, ok, <<"* Downloaded '">> \o out.fname \o <<"' (">> \o out.mtype
                             \o <<", ">> \o out.ftime \o <<", size: ">>
                             \o Digits(Len(out.data)) \o <<")">>)
           /\ Advance(r, "Fetch", Outcome(out.raised, out.found), "Archiving")
  /\ UNCHANGED <<nbytes, kstr, args, debug, maps, gcsname, viz, gem, fsize, row, gcs>>

\* upload file to GCS
SvcArchive(r) ==
  /\ pc[r] = "Archiving"
  /\ \E ir \in InsertResponses :
       LET name == os_path_join(args.folder, fname[r])
           out == gcs_blob_upload(name, args.bucket, data[r], mtype[r], ir)
           ok == ~out.raised /\ Truthy(out.rsp)
       IN  /\ Serves("insert", ir)
           /\ env' = [env EXCEPT !.insert = <<ir>>]
           /\ gcsname' = [gcsname EXCEPT ![r] = name]
           /\ calls' = [calls EXCEPT ![r] = @ \o out.calls]
           /\ gcs' = [gcs EXCEPT ![r] =
                       IF ir.st = "ok"
                       THEN @ \cup {[bucket |-> out.rsp.s[1], name |-> out.rsp.s[2],
                                     media |-> data[r], contentType |-> mtype[r]]}
                       ELSE @]
           /\ rsp' = [rsp EXCEPT ![r] = IF out.raised THEN @ ELSE out.rsp]
           /\ Verbose(r, ok, <<"* Uploaded '">> \o out.rsp.s[2] \o <<"' to GCS bucket '">>
                             \o out.rsp.s[1] \o <<"'">>)
           /\ Advance(r, "Archive", Outcome(out.raised, Truthy(out.rsp)), "Classifying")
  /\ UNCHANGED <<nbytes, kstr, args, debug, fname, mtype, ftime, data, maps, viz, gem, fsize, row>>

\* print('... Top %d labels ...' % (top, rsp)): '%d' takes a number, and
\* raises TypeError for a str
TopNoticeRaises(top) == top.py = "str"

\* process w/Vision; the labels are kept in rsp
SvcClassify(r) ==
  /\ pc[r] = "Classifying"
  /\ \E ar \in AnnotateResponses :
       LET out == vision_label_img(b64encode(data[r]), args.top, ar)
           ok == ~out.raised /\ TruthyOptStr(out.viz)
           typeError == ok /\ debug[r] /\ TopNoticeRaises(args.top)
       IN  /\ Serves("annotate", ar)
           /\ env' = [env EXCEPT !.annotate = <<ar>>]
           /\ calls' = [calls EXCEPT ![r] = @ \o out.calls]
           /\ rsp' = [rsp EXCEPT ![r] =
                       IF out.raised THEN @
                       ELSE IF out.viz = None THEN PyNone ELSE PyStr(out.viz[1])]
           /\ Verbose(r, ok /\ ~typeError,
                      <<"* Top ">> \o Digits(args.top.val)
                      \o <<" labels from Vision API: ">> \o out.viz[1])
           /\ trace' = [trace EXCEPT ![r] =
                         Append(@, [stage |-> "Classify",
                                    outcome |-> Outcome(out.raised, TruthyOptStr(out.viz))])]
           /\ pc' = [pc EXCEPT ![r] = IF ok /\ ~typeError THEN "Recording" ELSE "Aborted"]
           /\ ret' = [ret EXCEPT ![r] =
                       IF out.raised \/ typeError THEN "raised"
                       ELSE IF ok THEN @ ELSE "None"]
  /\ UNCHANGED <<nbytes, kstr, args, debug, fname, mtype, ftime, data, maps, gcsname, viz, gem,
                 fsize, row, gcs>>

\* push results to Sheet, get cells-saved count
SvcRecord(r) ==
  /\ pc[r] = "Recording"
  /\ \E ar \in AppendResponses :
       LET size == k_ize(Len(data[r]))
           cells == SvcBuildRow(args.folder, args.bucket, gcsname[r], fname[r], mtype[r],
                                ftime[r], size, rsp[r].s[1])
           out == sheet_append_row(args.sheet_id, cells, ar)
           ok == ~out.raised /\ Truthy(out.rsp)
       IN  /\ Serves("append", ar)
           /\ env' = [env EXCEPT !.append = <<ar>>]
           /\ fsize' = [fsize EXCEPT ![r] = size]
           /\ row' = [row EXCEPT ![r] = cells]
           /\ calls' = [calls EXCEPT ![r] = @ \o out.calls]
           /\ rsp' = [rsp EXCEPT ![r] = IF out.raised THEN @ ELSE out.rsp]
           /\ Verbose(r, ok, <<"* Added ">> \o Digits(out.rsp.n)
                             \o <<" cells to Google Sheet">>)
           /\ Advance(r, "Record", Outcome(out.raised, Truthy(out.rsp)), "Done")
  /\ UNCHANGED <<nbytes, kstr, args, debug, fname, mtype, ftime, data, maps, gcsname, viz, gem, gcs>>

NextSvc ==
  \E r \in Runs : SvcFetch(r) \/ SvcArchive(r) \/ SvcClassify(r) \/ SvcRecord(r)

SpecSvc == Init /\ [][NextSvc]_vars

\* ----------------------------------------------------- k_ize() on its own
\* the byte counts k_ize() is applied to: the small ones, and those around
\* 100,000 and 1,000,000 where the numeral gains a digit
KizeInputs ==
  (0 .. MaxBytes) \cup (99980 .. 100020) \cup (999980 .. 1000020)

InitKize ==
  /\ args \in {a \in Arguments : a.folder = <<>> /\ a.top.py = "int"}
  /\ Fresh
  /\ nbytes \in KizeInputs
  /\ kstr = None

\* kstr = k_ize(nbytes)
Kize ==
  /\ kstr = None
  /\ kstr' = Some(k_ize(nbytes))
  /\ UNCHANGED <<nbytes, args, debug, env, pc, ret, locals, console, slept, gcs,
                 calls, trace>>

NextKize == Kize

SpecKize == InitKize /\ [][NextKize]_vars

\* ----------------------------------------------------------------- claims
StageOrder == <<"Fetch", "Archive", "Classify", "Describe", "Record">>
Stages == {StageOrder[i] : i \in DOMAIN StageOrder}
StageIndex(stage) == CHOOSE i \in DOMAIN StageOrder : StageOrder[i] = stage

\* the collaborator operations a stage uses
StageOps(stage) ==
  CASE stage = "Fetch" -> {"DRIVE.files.list", "DRIVE.files.get_media", "DRIVE.files.get"}
    [] stage = "Archive" -> {"GCS.objects.insert"}
    [] stage = "Classify" -> {"VISION.images.annotate"}
    [] stage = "Describe" -> {"GEMINI.generate_content"}
    [] stage = "Record" -> {"SHEETS.values.append"}

StageOfOp(op) == CHOOSE stage \in Stages : op \in StageOps(stage)

\* number of calls invocation r made to the operations ops
CallCount(r, ops) == Cardinality({i \in DOMAIN calls[r] : calls[r][i].op \in ops})

Invoked(r, stage) == \E i \in DOMAIN trace[r] : trace[r][i].stage = stage
Ended(r, stage, outcome) ==
  \E i \in DOMAIN trace[r] : trace[r][i] = [stage |-> stage, outcome |-> outcome]
Terminal(r) == pc[r] \in {"Done", "Aborted"}

\* C1: fail-fast.  Once a stage of an invocation has ended without a
\* populated result, it is the last stage invoked, no collaborator of a later
\* stage has been called (call count 0), and the invocation is Aborted and
\* reports failure (never True).
C1_FailFast ==
  \A r \in Runs : \A i \in DOMAIN trace[r] :
    trace[r][i].outcome # "populated" =>
      /\ i = Len(trace[r])
      /\ \A j \in DOMAIN StageOrder :
           j > StageIndex(trace[r][i].stage) =>
             /\ CallCount(r, StageOps(StageOrder[j])) = 0
             /\ ~Invoked(r, StageOrder[j])
      /\ pc[r] = "Aborted"
      /\ ret[r] \in {"None", "raised"}

\* C1 witness: an invocation whose Classify stage returned an absent result
\* after Fetch and Archive had succeeded.
C1_Witness ==
  \E r \in Runs :
    /\ Ended(r, "Fetch", "populated") /\ Ended(r, "Archive", "populated")
    /\ Ended(r, "Classify", "absent")
    /\ pc[r] = "Aborted"

\* C2: an invocation that is Done has invoked all five stages, each with a
\* populated result: a found file, a non-empty receipt, a non-empty label
\* string, a non-empty description and a non-zero cell count.
C2_DoneOnlyAfterAllStages ==
  \A r \in Runs :
    pc[r] = "Done" =>
      /\ ret[r] = "True"
      /\ \A stage \in Stages :
           Ended(r, stage, "populated") /\ CallCount(r, StageOps(stage)) >= 1
      /\ env.list # <<>> /\ env.list[1].st = "ok" /\ env.list[1].files # <<>>
      /\ fname[r] # <<>> /\ mtype[r] # <<>> /\ ftime[r] # <<>> /\ data[r] # <<>>
      /\ gcs[r] # {}
      /\ viz[r] # None /\ viz[r][1] # <<>>
      /\ gem[r] # <<>>
      /\ rsp[r].t = "int" /\ rsp[r].n # 0

\* C2 witness: an invocation that is Done.
C2_Witness == \E r \in Runs : pc[r] = "Done" /\ Len(row[r]) >= 7

\* the stages in trace[r] are the first Len(trace[r]) stages of the order
IsPrefixOfOrder(r) ==
  /\ Len(trace[r]) <= Len(StageOrder)
  /\ \A i \in DOMAIN trace[r] : trace[r][i].stage = StageOrder[i]

\* C3: the stages invoked are a prefix of Fetch, Archive, Classify, Describe,
\* Record, each at most once, every one but the last with a populated
\* result; the collaborator calls of a stage all come after those of the
\* stage before; a step invokes one stage; and an invocation that is Done or
\* Aborted invokes nothing more.
C3_StageOrder ==
  /\ [](\A r \in Runs :
         /\ IsPrefixOfOrder(r)
         /\ \A i \in DOMAIN trace[r] : i < Len(trace[r]) => trace[r][i].outcome = "populated"
         /\ \A i, j \in DOMAIN calls[r] :
              i < j => StageIndex(StageOfOp(calls[r][i].op)) <= StageIndex(StageOfOp(calls[r][j].op))
         /\ ~Terminal(r) => pc[r] = <<"Fetching", "Archiving", "Classifying", "Describing",
                                     "Recording">>[Len(trace[r]) + 1])
  /\ [][\A r \in Runs :
         /\ Len(trace'[r]) <= Len(trace[r]) + 1
         /\ SubSeq(trace'[r], 1, Len(trace[r])) = trace[r]
         /\ Terminal(r) => pc'[r] = pc[r] /\ trace'[r] = trace[r] /\ calls'[r] = calls[r]]_vars

\* C3 witness: an invocation Aborted at its fourth stage, Describe, by an
\* absent result, after the six collaborator calls of the first four stages.
C3_Witness ==
  \E r \in Runs :
    /\ pc[r] = "Aborted" /\ Ended(r, "Describe", "absent")
    /\ Len(trace[r]) = 4 /\ Len(calls[r]) = 6

\* the file store answered the query with zero matches
ZeroMatches == env.list = <<[st |-> "ok", files |-> <<>>]>>

\* C4: when the file store returns zero matches, Fetch returns None without
\* raising, the only collaborator call made is the query (no download, no
\* metadata lookup, no upload), and the invocation is Aborted with result
\* None.
C4_NotFound ==
  \A r \in Runs :
    (ZeroMatches /\ pc[r] # "Fetching") =>
      /\ trace[r] = <<[stage |-> "Fetch", outcome |-> "absent"]>>
      /\ rsp[r] = PyNone
      /\ calls[r] = <<Call("DRIVE.files.list", <<args.fname>>, <<>>, 0)>>
      /\ gcs[r] = {}
      /\ pc[r] = "Aborted"
      /\ ret[r] = "None"

\* C4 witness: an invocation whose Fetch got zero matches.
C4_Witness == \E r \in Runs : ZeroMatches /\ pc[r] = "Aborted" /\ Len(calls[r]) = 1

\* the response that made the last stage of invocation r raise, if any: an
\* error of a collaborator the stage asked
RaisedByCollaborator(r) ==
  LET stage == trace[r][Len(trace[r])].stage
      erred(op) == env[op] # <<>> /\ env[op][1].st \notin {"ok", "empty"}
  IN  CASE stage = "Fetch" ->
             \/ erred("list")
             \/ (CallCount(r, {"DRIVE.files.get_media"}) = 1 /\ erred("media"))
             \/ (CallCount(r, {"DRIVE.files.get"}) = 1 /\ erred("imd"))
        [] stage = "Archive" -> erred("insert")
        [] stage = "Classify" -> erred("annotate")
        [] stage = "Describe" -> erred("generate")
        [] stage = "Record" -> erred("append")

\* C5 as stated: whatever the kind of failure and the stage, the caller of
\* main() gets the same falsy outcome, None.
C5_SingleFailureSignal ==
  \A r \in Runs : pc[r] = "Aborted" => ret[r] = "None"

\* C5 as amended: a failure a stage reports by an absent or empty result
\* (no match, an empty or unusable response) gives the caller None whatever
\* the stage; an error raised by a collaborator call is not caught and
\* reaches the caller as an exception.  Either way the invocation never
\* completes and hands over no result.
C5_AbsentIsNoneErrorsPropagate ==
  \A r \in Runs :
    pc[r] = "Aborted" =>
      /\ trace[r] # <<>>
      /\ ret[r] = IF RaisedByCollaborator(r) THEN "raised" ELSE "None"
      /\ ret[r] # "True"

\* C5 witness: one invocation aborted by a raised error, seen next to the
\* states where a stage returned an absent result.
C5_Witness ==
  \E r \in Runs :
    /\ pc[r] = "Aborted" /\ ret[r] = "raised"
    /\ Ended(r, "Archive", "raised")

\* the file store's metadata of the fetched file has a location
GeolocationPresent ==
  /\ env.imd # <<>> /\ env.imd[1].st = "ok" /\ env.imd[1].imd # None
  /\ "location" \in env.imd[1].imd[1].keys

\* C6: the row handed to the Record stage has 8 cells when the geolocation
\* was present and 7 when not; its first seven cells are folder, file link,
\* media type, time, size, labels, description in both cases, and the eighth
\* is the map link.
C6_RowShape ==
  \A r \in Runs :
    Invoked(r, "Record") =>
      /\ Len(row[r]) = IF GeolocationPresent THEN 8 ELSE 7
      /\ SubSeq(row[r], 1, 7) =
           <<args.folder, FileLink(args.bucket, gcsname[r], fname[r]), mtype[r], ftime[r],
             fsize[r], viz[r][1], gem[r]>>
      /\ GeolocationPresent =>
           row[r][8] = MapLink(MAPS_API_URL
                               \o FloatStr(env.imd[1].imd[1].location.latitude)
                               \o <<",">>
                               \o FloatStr(env.imd[1].imd[1].location.longitude)
                               \o <<"&key=">> \o API_KEY)
      /\ calls[r][Len(calls[r])].s = <<args.sheet_id>> \o row[r]

\* C6 witness: a row with the map cell was handed to the Record stage.
C6_Witness ==
  \E r \in Runs : Invoked(r, "Record") /\ GeolocationPresent /\ Len(row[r]) = 8

\* the object the Archive stage of invocation r uploads, as the store's
\* receipt names it
ArchivedObject(r) ==
  LET receipt == Receipt(env.insert[1], args.bucket, gcsname[r])
  IN  [bucket |-> receipt[1], name |-> receipt[2], media |-> data[r],
       contentType |-> mtype[r]]

\* C7: no rollback.  No step removes an object from the object store; once
\* Archive succeeded the archived object is in the store, also when the
\* invocation is Aborted later; and an invocation calls the object store at
\* most once, with insert.
C7_NoRollback ==
  /\ [][\A r \in Runs : gcs[r] \subseteq gcs'[r]]_vars
  /\ [](\A r \in Runs :
         /\ Ended(r, "Archive", "populated") => ArchivedObject(r) \in gcs[r]
         /\ CallCount(r, {"GCS.objects.insert"}) <= 1
         /\ \A i \in DOMAIN calls[r] :
              StageOfOp(calls[r][i].op) = "Archive" => calls[r][i].op = "GCS.objects.insert")

\* C7 witness: an invocation Aborted by a failure of Describe after Archive
\* succeeded, with the archived object in the store.
C7_Witness ==
  \E r \in Runs :
    /\ pc[r] = "Aborted" /\ Invoked(r, "Describe")
    /\ ArchivedObject(r) \in gcs[r]

\* C8: the two invocations, which differ in the debug flag only, agree on
\* the collaborator calls made so far at equal progress, and once both have
\* ended they made the same calls, built the same row and ended in the same
\* state with the same result.
C8_VerboseHasNoEffect ==
  /\ Len(trace["quiet"]) = Len(trace["verbose"]) =>
       /\ calls["quiet"] = calls["verbose"]
       /\ trace["quiet"] = trace["verbose"]
  /\ (Terminal("quiet") /\ Terminal("verbose")) =>
       /\ calls["quiet"] = calls["verbose"]
       /\ row["quiet"] = row["verbose"]
       /\ pc["quiet"] = pc["verbose"]
       /\ ret["quiet"] = ret["verbose"]
       /\ gcs["quiet"] = gcs["verbose"]

\* C9: in the scenario (one file photo.jpg without location, folder 2024,
\* bucket my-bucket, upload accepted, one label Dog 0.97, description
\* "A dog sits in a park.", 7 cells reported) an invocation that has ended is
\* Done with result True, and the row it appended is these 7 cells.
ScenarioRow ==
  <<<<"2024">>,
    <<"=HYPERLINK(\"storage.cloud.google.com/", "my-bucket", "/", "2024", "/",
      "photo.jpg", "\", \"", "photo.jpg", "\")">>,
    <<"image/jpeg">>,
    <<"2024-01-02T03:04:05.000Z">>,
    <<" ", " ", "0", ".", "0", "0", "K">>,
    <<"(", "9", "7", ".", "0", "0", "%) ", "Dog">>,
    <<"A dog sits in a park.">>>>

Scenario ==
  /\ args.fname = <<"photo.jpg">> /\ args.folder = <<"2024">>
  /\ args.bucket = <<"my-bucket">>
  /\ env.list = <<[st |-> "ok", files |-> <<File1(<<"photo.jpg">>)>>]>>
  /\ env.media = <<[st |-> "ok"]>>
  /\ env.imd # <<>> /\ env.imd[1].st = "ok" /\ ~GeolocationPresent
  /\ env.insert = <<[st |-> "ok", as |-> "sent"]>>
  /\ env.annotate = <<[st |-> "ok", labelAnnotations |-> Some(<<Dog>>)]>>
  /\ env.generate = <<[st |-> "ok", text |-> <<"A dog sits in a park.">>]>>
  /\ env.append = <<[st |-> "ok", updates |-> Some(Some(7))]>>

C9_EndToEnd ==
  \A r \in Runs :
    (Scenario /\ Terminal(r)) =>
      /\ pc[r] = "Done" /\ ret[r] = "True"
      /\ row[r] = ScenarioRow
      /\ Len(row[r]) = 7
      /\ calls[r][Len(calls[r])] =
           Call("SHEETS.values.append", <<args.sheet_id>> \o ScenarioRow, <<>>, 0)

\* C9 witness: an invocation that ended in the scenario.
C9_Witness == \E r \in Runs : Scenario /\ pc[r] = "Done"

\* the cell count in the tabular store's response, None when the response
\* is empty or has no count
ReportedCells ==
  IF env.append # <<>> /\ env.append[1].st = "ok" /\ env.append[1].updates # None
  THEN env.append[1].updates[1] ELSE None

\* C10: when the Record stage got a response from the tabular store, then
\* with an empty response, no count or a count of zero sheet_append_row
\* returns None or 0 and the invocation is Aborted with None although the
\* four stages before succeeded; otherwise sheet_append_row returns exactly
\* the reported count and the invocation is Done.
C10_RecordAppend ==
  \A r \in Runs :
    (Invoked(r, "Record") /\ env.append[1].st = "ok") =>
      /\ \A i \in 1..4 : trace[r][i].outcome = "populated"
      /\ IF ReportedCells = None \/ ReportedCells[1] = 0
         THEN /\ rsp[r] \in {PyNone, PyInt(0)}
              /\ rsp[r] = PyInt(0) <=> ReportedCells = Some(0)
              /\ pc[r] = "Aborted" /\ ret[r] = "None"
         ELSE /\ rsp[r] = PyInt(ReportedCells[1])
              /\ pc[r] = "Done" /\ ret[r] = "True"

\* C10 witness: an invocation Aborted because the store reported zero
\* cells, after four successful stages.
C10_Witness ==
  \E r \in Runs :
    /\ Invoked(r, "Record") /\ ReportedCells = Some(0)
    /\ pc[r] = "Aborted" /\ Len(trace[r]) = 5

\* the pieces of str between the tokens sep
RECURSIVE SplitOn(_, _)
SplitOn(str, sep) ==
  IF \A i \in DOMAIN str : str[i] # sep THEN <<str>>
  ELSE LET k == CHOOSE i \in DOMAIN str :
                  str[i] = sep /\ \A j \in 1..(i - 1) : str[j] # sep
       IN  <<SubSeq(str, 1, k - 1)>> \o SplitOn(SubSeq(str, k + 1, Len(str)), sep)

\* the labelAnnotations of the label service's response, None without the key
ReturnedLabels == env.annotate[1].labelAnnotations

DigitValue(tok) == (CHOOSE i \in DOMAIN DigitTok : DigitTok[i] = tok) - 1

\* the number a sequence of digits denotes
RECURSIVE DigitsToInt(_)
DigitsToInt(ds) ==
  IF ds = <<>> THEN 0
  ELSE 10 * DigitsToInt(SubSeq(ds, 1, Len(ds) - 1)) + DigitValue(ds[Len(ds)])

RECURSIVE Pow10(_)
Pow10(k) == IF k = 0 THEN 1 ELSE 10 * Pow10(k - 1)

\* the value, in units of 1e-7, of a decimal numeral with an optional sign,
\* fraction and negative exponent
ParseFloat(str) ==
  LET neg == str # <<>> /\ str[1] = "-"
      body == IF neg THEN Tail(str) ELSE str
      parts == SplitOn(body, "e")
      mant == SplitOn(parts[1], ".")
      frac == IF Len(mant) = 2 THEN mant[2] ELSE <<>>
      exp == IF Len(parts) = 2 THEN DigitsToInt(Tail(parts[2])) ELSE 0
      a == DigitsToInt(mant[1] \o frac) * Pow10(7 - exp - Len(frac))
  IN  IF neg THEN -a ELSE a

\* C12: once Fetch returned a file, maps is the empty string when the file
\* store gave no metadata or metadata without a location; otherwise maps is
\* the Maps URL, then a numeral of the latitude, a comma, a numeral of the
\* longitude, then the key, and the two numerals denote exactly the
\* metadata's latitude and longitude.
C12_GeolocationUrl ==
  \A r \in Runs :
    Ended(r, "Fetch", "populated") =>
      IF ~GeolocationPresent THEN maps[r] = <<>>
      ELSE LET pieces == SplitOn(Tail(maps[r]), ",")
               tail == SplitOn(pieces[2], "&key=")
               location == env.imd[1].imd[1].location
           IN  /\ maps[r] # <<>>
               /\ <<maps[r][1]>> = MAPS_API_URL
               /\ Len(pieces) = 2 /\ Len(tail) = 2
               /\ tail[2] = API_KEY
               /\ ParseFloat(pieces[1]) = location.latitude
               /\ ParseFloat(tail[1]) = location.longitude

\* C12 witness: a fetched file whose metadata has a location, with a
\* longitude that differs from the latitude.
C12_Witness ==
  \E r \in Runs :
    /\ Ended(r, "Fetch", "populated") /\ GeolocationPresent
    /\ env.imd[1].imd[1].location.latitude = 374220041
    /\ maps[r] # <<>>

\* the first file of the list the file store returned
FirstMatch == env.list[1].files[1]

\* C13: when the file store returned matches, every later step of Fetch is
\* about the first of them: the download and the metadata lookup are called
\* with its id, and the name, media type, time and content Fetch returns are
\* its name, media type, time and content.
C13_FirstMatch ==
  \A r \in Runs :
    (pc[r] # "Fetching" /\ env.list[1].st = "ok" /\ env.list[1].files # <<>>) =>
      /\ Len(calls[r]) >= 2
      /\ calls[r][2] = Call("DRIVE.files.get_media", <<FirstMatch.id>>, <<>>, 0)
      /\ Len(calls[r]) >= 3 =>
           /\ calls[r][3].op = "DRIVE.files.get"
           /\ calls[r][3].s[1] = FirstMatch.id
      /\ Ended(r, "Fetch", "populated") =>
           /\ fname[r] = FirstMatch.name
           /\ mtype[r] = FirstMatch.mimeType
           /\ ftime[r] = FirstMatch.modifiedTime
           /\ data[r] = DriveContent(FirstMatch.id)

\* C13 witness: two matches were returned, the second file of the store
\* first, and Fetch returned it.
C13_Witness ==
  \E r \in Runs :
    /\ Ended(r, "Fetch", "populated")
    /\ Len(env.list[1].files) = 2 /\ FirstMatch.id = <<"id2">>
    /\ mtype[r] = <<"image/png">>

\* ---------------------------------------------------------------- C14
\* the numeral of a formatted size: the string without its last character
\* and without the padding, split at the decimal point
ShownNumeral(str) == SplitOn(strip(SubSeq(str, 1, Len(str) - 1)), ".")

\* the value shown by a formatted size, in hundredths of a K
ShownHundredths(str) ==
  LET num == ShownNumeral(str) IN 100 * DigitsToInt(num[1]) + DigitsToInt(num[2])

\* the formatted size shows n/1000 with exactly two decimals and ends in K
TwoDecimalsAndK(str, n) ==
  /\ str # <<>> /\ str[Len(str)] = "K"
  /\ Len(ShownNumeral(str)) = 2
  /\ Len(ShownNumeral(str)[1]) >= 1
  /\ Len(ShownNumeral(str)[2]) = 2
  /\ \A i \in 1..2 : \A j \in DOMAIN ShownNumeral(str)[i] :
       \E d \in DOMAIN DigitTok : ShownNumeral(str)[i][j] = DigitTok[d]
  /\ 10 * ShownHundredths(str) - n \in -5..5

\* C14 as stated: k_ize(n) has the same length for every n (that of
\* k_ize(0)), shows n/1000 with exactly two decimals and ends in K, and
\* k_ize(1000000) shows 1000.00K.
C14_FixedWidth ==
  kstr # None =>
    /\ Len(kstr[1]) = Len(k_ize(0))
    /\ TwoDecimalsAndK(kstr[1], nbytes)
    /\ nbytes = 1000000 => ShownHundredths(kstr[1]) = 100000

\* C14 amended: k_ize(n) shows n/1000 rounded to exactly two decimals and
\* ends in K; it is right-aligned with spaces to a minimum of 7 characters,
\* which is its length exactly when the value shown is below 1000.00, and it
\* is longer and unpadded from there on: k_ize(0) is "  0.00K" and
\* k_ize(1000000) is "1000.00K".
C14_MinimumWidth ==
  kstr # None =>
    LET str == kstr[1]
        pad == Len(str) - Len(strip(str))
    IN  /\ TwoDecimalsAndK(str, nbytes)
        /\ Len(str) >= 7
        /\ Len(str) = 7 <=> ShownHundredths(str) < 100000
        /\ Len(str) > 7 => pad = 0
        /\ SubSeq(str, 1, pad) = Spaces(pad)
        /\ nbytes = 0 => str = <<" ", " ", "0", ".", "0", "0", "K">>
        /\ nbytes = 1000000 => str = <<"1", "0", "0", "0", ".", "0", "0", "K">>

\* C14 witness: k_ize was applied to 1,000,000 and gave eight characters.
C14_Witness == nbytes = 1000000 /\ kstr # None /\ Len(kstr[1]) = 8

\* ---------------------------------------------------------------- C15
\* the receipt the object store returned to invocation r: bucket, name
ArchiveReceipt(r) == Receipt(env.insert[1], args.bucket, gcsname[r])

\* the call of the object store invocation r made
InsertCall(r) ==
  calls[r][CHOOSE i \in DOMAIN calls[r] : calls[r][i].op = "GCS.objects.insert"]

\* the file-reference hyperlink to the object name in the container bucket
LinkTo(bucket, name, label) ==
  <<"=HYPERLINK(\"storage.cloud.google.com/">> \o bucket \o <<"/">> \o name
  \o <<"\", \"">> \o label \o <<"\")">>

\* C15 as stated: the file-reference hyperlink of the assembled row names
\* the container and the object name of the receipt Archive returned,
\* whatever receipt the object store returned on success.
C15_RowFromReceipt ==
  \A r \in Runs :
    Invoked(r, "Record") =>
      row[r][2] = LinkTo(ArchiveReceipt(r)[1], ArchiveReceipt(r)[2], fname[r])

\* C15 amended: the file-reference hyperlink of the assembled row names the
\* bucket argument and the object name os.path.join(folder, fname) that were
\* sent to the object store; the receipt only decides whether the
\* invocation goes on, so the hyperlink names what the receipt names when
\* the store returns the names it was sent.
C15_RowFromRequest ==
  \A r \in Runs :
    Invoked(r, "Record") =>
      /\ InsertCall(r).s[1] = args.bucket
      /\ InsertCall(r).s[2] = gcsname[r]
      /\ row[r][2] = LinkTo(InsertCall(r).s[1], InsertCall(r).s[2], fname[r])
      /\ env.insert[1].as = "sent" =>
           row[r][2] = LinkTo(ArchiveReceipt(r)[1], ArchiveReceipt(r)[2], fname[r])

\* C15 witness: the store returned a receipt with a name of its own, and
\* the row was built.
C15_Witness ==
  \E r \in Runs :
    /\ Invoked(r, "Record") /\ env.insert[1].as = "assigned"
    /\ ArchiveReceipt(r)[2] # gcsname[r]
    /\ args.folder = <<"2024">>

\* ---------------------------------------------------------------- C16
\* every stage invocation r has invoked so far returned a populated result
PopulatedSoFar(r) == \A i \in DOMAIN trace[r] : trace[r][i].outcome = "populated"

\* C16: when every collaborator call returns, every invocation eventually
\* reaches Done or Aborted; an invocation is Aborted only by a stage that did
\* not return a populated result, and an invocation whose five stages all
\* returned a populated result is Done and returned True, with the
\* geolocation present or not.
C16_TerminationAndProgress ==
  /\ <>(\E r \in Runs : Terminal(r))
  /\ \A r \in Runs : (trace[r] # <<>>) ~> Terminal(r)
  /\ [](\A r \in Runs :
         /\ pc[r] = "Aborted" => ~PopulatedSoFar(r)
         /\ (PopulatedSoFar(r) /\ Len(trace[r]) = Len(StageOrder)) =>
              (pc[r] = "Done" /\ ret[r] = "True"))

\* C16 witness: all five stages returned a populated result without a
\* geolocation, and the invocation is Done.
C16_Witness ==
  \E r \in Runs :
    /\ pc[r] = "Done" /\ PopulatedSoFar(r) /\ Len(trace[r]) = Len(StageOrder)
    /\ ~GeolocationPresent /\ maps[r] = <<>>

\* ---------------------------------------------------------------- C17
\* the file store answered the geolocation metadata lookup with an error
LookupFailed == env.imd # <<>> /\ env.imd[1].st = "HttpError"

\* the operations of the collaborator calls invocation r made, in order
CallOps(r) == [i \in DOMAIN calls[r] |-> calls[r][i].op]

\* C17: when the geolocation metadata lookup raises, Fetch ends raised: the
\* invocation is Aborted with the exception, Fetch is the only stage invoked
\* and no collaborator of Archive, Classify, Describe or Record is called;
\* and the lookup is made at most once, right after the content download,
\* as the third and last call of Fetch; after an error it stays the
\* invocation's last call.
C17_LookupErrorAbortsFetch ==
  \A r \in Runs :
    /\ (pc[r] # "Fetching" /\ LookupFailed) =>
         /\ trace[r] = <<[stage |-> "Fetch", outcome |-> "raised"]>>
         /\ pc[r] = "Aborted" /\ ret[r] = "raised"
         /\ CallOps(r) = <<"DRIVE.files.list", "DRIVE.files.get_media", "DRIVE.files.get">>
         /\ \A stage \in Stages \ {"Fetch"} :
              ~Invoked(r, stage) /\ CallCount(r, StageOps(stage)) = 0
         /\ gcs[r] = {} /\ row[r] = <<>> /\ maps[r] = <<>>
    /\ CallCount(r, {"DRIVE.files.get"}) <= 1
    /\ \A i \in DOMAIN calls[r] :
         calls[r][i].op = "DRIVE.files.get" =>
           /\ i = Cardinality(StageOps("Fetch"))
           /\ calls[r][i - 1].op = "DRIVE.files.get_media"

\* C17 witness: the lookup raised after list and download succeeded, and
\* the invocation is Aborted after three calls.
C17_Witness ==
  \E r \in Runs :
    /\ LookupFailed /\ pc[r] = "Aborted" /\ Len(calls[r]) = 3
    /\ env.media[1].st = "ok" /\ Len(env.list[1].files) = 2

\* ---------------------------------------------------------------- C18
\* the 6-bit value of a base64 character
B64Value(ch) == (CHOOSE i \in DOMAIN B64Alphabet : B64Alphabet[i] = ch) - 1

\* the bytes a padded base64 string stands for
RECURSIVE b64decode(_)
b64decode(chars) ==
  IF chars = <<>> THEN <<>>
  ELSE LET v(i) == B64Value(chars[i])
           b1 == v(1) * 4 + v(2) \div 16
           b2 == (v(2) % 16) * 16 + v(3) \div 4
           b3 == (v(3) % 4) * 64 + v(4)
       IN  IF chars[3] = "=" THEN <<b1>>
           ELSE IF chars[4] = "=" THEN <<b1, b2>>
           ELSE <<b1, b2, b3>> \o b64decode(SubSeq(chars, 5, Len(chars)))

\* C18: after Fetching no step changes the name, media type, timestamp or
\* binary content of an invocation; once Fetch returned them they are those
\* of the file downloaded, and that content is what Archive uploads (with
\* that media type), what Classify submits in base64, what Describe
\* submits, and what the size cell of the row is computed from; the media
\* type and timestamp cells are those Fetch returned.
C18_SourceFileUnchanged ==
  /\ [][\A r \in Runs :
          pc[r] # "Fetching" =>
            /\ data'[r] = data[r] /\ mtype'[r] = mtype[r]
            /\ ftime'[r] = ftime[r] /\ fname'[r] = fname[r]]_vars
  /\ [](\A r \in Runs :
         Ended(r, "Fetch", "populated") =>
           /\ data[r] = DriveContent(FirstMatch.id)
           /\ mtype[r] = FirstMatch.mimeType
           /\ ftime[r] = FirstMatch.modifiedTime
           /\ \A i \in DOMAIN calls[r] :
                /\ calls[r][i].op = "GCS.objects.insert" =>
                     calls[r][i].d = data[r] /\ calls[r][i].s[3] = mtype[r]
                /\ calls[r][i].op = "VISION.images.annotate" =>
                     b64decode(calls[r][i].s[1]) = data[r]
                /\ calls[r][i].op = "GEMINI.generate_content" =>
                     calls[r][i].d = data[r]
           /\ Invoked(r, "Record") =>
                /\ row[r][3] = mtype[r] /\ row[r][4] = ftime[r]
                /\ row[r][5] = k_ize(Len(data[r]))
                /\ 10 * ShownHundredths(row[r][5]) - Len(data[r]) \in -5..5)

\* C18 witness: the 16-byte file was fetched and all stages were invoked;
\* the size cell shows 0.02K.
C18_Witness ==
  \E r \in Runs :
    /\ Invoked(r, "Record") /\ Len(data[r]) = 16
    /\ row[r][5] = <<" ", " ", "0", ".", "0", "2", "K">>
    /\ CallCount(r, {"VISION.images.annotate", "GEMINI.generate_content",
                     "GCS.objects.insert"}) = 3

====
